---- MODULE Spec2Model ----
(***************************************************************************)
(* A model of chicha-whois: the range-to-CIDR conversions                  *)
(* (ripe-country-list.go and chicha-whois.go both define a generateCIDR),  *)
(* the nested-subnet filter filterRedundantCIDRs, the post-processing its  *)
(* callers apply to the CIDR list (removeDuplicates, sort.Strings), and    *)
(* the scan of the database by extractCountryCIDRs and                     *)
(* extractCIDRsByKeywordsAndCountry, from os.Open to the caller's list.    *)
(*                                                                         *)
(* Addresses are unsigned integers of W bits, where the program uses 32:   *)
(* every 32 of the source is W here, 0xFFFFFFFF is MaxUint, and unsigned   *)
(* arithmetic wraps modulo 2^W exactly as uint32 arithmetic wraps modulo   *)
(* 2^32.  With W <= 8 an address is one octet of the dotted form, so its   *)
(* text is that octet in decimal.  A Go string is a sequence of bytes.     *)
(***************************************************************************)
EXTENDS Integers, Sequences, FiniteSets, TLC

VARIABLES
    startIPStr,  \* generateCIDR's first argument (both files)
    endIPStr,    \* generateCIDR's second argument (both files)
    start,       \* ripe-country-list.go generateCIDR: local start (uint32)
    end,         \* ripe-country-list.go generateCIDR: local end (uint32)
    cidrs,       \* ripe-country-list.go generateCIDR: local cidrs ([]string)
    pc,          \* ripe-country-list.go generateCIDR: position in the function
    cidr,        \* chicha-whois.go generateCIDR: the returned string
    pcSingle,    \* chicha-whois.go generateCIDR: "call" before, "returned" after
    input,       \* a []string of CIDRs, as a caller holds it after the scan
    filtered,    \* filterRedundantCIDRs(input)
    refiltered,  \* filterRedundantCIDRs(filtered)
    ipRanges,    \* the caller's ipRanges when it hands the list to the formatter
    routes,      \* cidrToRoute(c) for every c of input
    pcFilter,    \* which of the calls above have been made
    db,          \* the lines bufio.Scanner yields from the file at dbPath
    ioErr,       \* "open": os.Open fails; "read": Scan stops on a read error
                 \* after the lines of db; "none": it stops at the end of file
    call,        \* the caller: "createBindACL", "createBindACLFiltered", "search";
                 \* "processRIPEdb" for the name search of ripe-country-list.go
    searchName,  \* processRIPEdb's searchName
    countryCode, \* its countryCode
    keywords,    \* its keywords (the caller's slice)
    scanned,     \* the number of lines the scanner has yielded
    found,       \* its local ipRanges
    pcExtract    \* position in the extraction function and then in its caller

vars == <<startIPStr, endIPStr, start, end, cidrs, pc, cidr, pcSingle,
          input, filtered, refiltered, ipRanges, routes, pcFilter,
          db, ioErr, call, searchName, countryCode, keywords, scanned, found, pcExtract>>

rangeVars == <<startIPStr, endIPStr, start, end, cidrs, pc, cidr, pcSingle>>

filterVars == <<input, filtered, refiltered, ipRanges, routes, pcFilter>>

extractVars == <<db, ioErr, call, searchName, countryCode, keywords, scanned, found, pcExtract>>

-----------------------------------------------------------------------------
(* Bounds *)

\* Width of an address in bits (32 in the program).
W == 4

\* Longest list of CIDR strings handed to the filter.
MaxList == 2

\* Most lines of a database file.
MaxLines == 4

-----------------------------------------------------------------------------
(* Unsigned W-bit arithmetic *)

RECURSIVE Pow2(_)
Pow2(n) == IF n <= 0 THEN 1 ELSE 2 * Pow2(n - 1)

\* uint32(0xFFFFFFFF)
MaxUint == Pow2(W) - 1

Addr == 0 .. MaxUint

\* x << n on a uint32: bits shifted out are lost, a count >= the width gives 0
Shl(x, n) == IF n >= W THEN 0 ELSE (x * Pow2(n)) % Pow2(W)

\* x + y and x - y on a uint32
AddU(x, y) == (x + y) % Pow2(W)

SubU(x, y) == (x - y + Pow2(W)) % Pow2(W)

RECURSIVE BitAnd(_, _)
BitAnd(a, b) ==
    IF a = 0 \/ b = 0 THEN 0
    ELSE 2 * BitAnd(a \div 2, b \div 2) + (a % 2) * (b % 2)

RECURSIVE BitOr(_, _)
BitOr(a, b) ==
    IF a = 0 THEN b
    ELSE IF b = 0 THEN a
    ELSE 2 * BitOr(a \div 2, b \div 2) + (IF a % 2 = 1 \/ b % 2 = 1 THEN 1 ELSE 0)

RECURSIVE BitXor(_, _)
BitXor(a, b) ==
    IF a = 0 THEN b
    ELSE IF b = 0 THEN a
    ELSE 2 * BitXor(a \div 2, b \div 2) + (IF a % 2 = b % 2 THEN 0 ELSE 1)

\* ^x on a uint32
BitNot(x) == MaxUint - x

\* math/bits.Len32: the number of bits needed to represent x, 0 for x = 0
RECURSIVE Len32(_)
Len32(x) == IF x = 0 THEN 0 ELSE 1 + Len32(x \div 2)

-----------------------------------------------------------------------------
(* Strings: sequences of bytes *)

Slash == 47

Digit0 == 48

IsDigit(c) == c >= Digit0 /\ c <= Digit0 + 9

\* fmt's %d of a non-negative integer
RECURSIVE Itoa(_)
Itoa(n) == IF n < 10 THEN <<Digit0 + n>> ELSE Itoa(n \div 10) \o <<Digit0 + (n % 10)>>

\* the value of a string of decimal digits, -1 when it is not one
RECURSIVE DigitsValue(_, _)
DigitsValue(s, acc) ==
    IF s = <<>> THEN acc
    ELSE IF ~IsDigit(Head(s)) THEN -1
    ELSE DigitsValue(Tail(s), 10 * acc + (Head(s) - Digit0))

Atoi(s) == IF s = <<>> THEN -1 ELSE DigitsValue(s, 0)

\* the index of the first byte c of s, 0 when there is none
RECURSIVE IndexByte(_, _, _)
IndexByte(s, c, i) ==
    IF i > Len(s) THEN 0
    ELSE IF s[i] = c THEN i
    ELSE IndexByte(s, c, i + 1)

\* bytes-wise s < t, the order of Go's string comparison and of sort.Strings
RECURSIVE StrLess(_, _)
StrLess(s, t) ==
    IF t = <<>> THEN FALSE
    ELSE IF s = <<>> THEN TRUE
    ELSE IF Head(s) # Head(t) THEN Head(s) < Head(t)
    ELSE StrLess(Tail(s), Tail(t))

\* net.IP.String of a 4-byte address: an address is one octet here
IPString(a) == Itoa(a)

\* the value of a dotted-decimal IPv4 literal (one octet here), -1 when s is
\* none: no digits, a value past the last address, or a leading zero
parseIPv4(s) ==
    LET v == Atoi(s)
    IN  IF v < 0 \/ v > MaxUint THEN -1
        ELSE IF Len(s) > 1 /\ Head(s) = Digit0 THEN -1
        ELSE v

\* "::ffff:", the start of the IPv6 literal of an IPv4-mapped address
MappedPrefix == <<58, 58, 102, 102, 102, 102, 58>>

\* net.ParseIP(s).To4() as a uint32: -1 stands for nil.  ParseIP reads IPv4 and
\* IPv6 literals; To4 gives the four bytes of an IPv4 address and of an
\* IPv4-mapped IPv6 address ("::ffff:a.b.c.d"), nil for any other.
ParseIP(s) ==
    IF Len(s) > Len(MappedPrefix) /\ SubSeq(s, 1, Len(MappedPrefix)) = MappedPrefix
    THEN parseIPv4(SubSeq(s, Len(MappedPrefix) + 1, Len(s)))
    ELSE parseIPv4(s)

\* an IPv6 literal, "::"
BadIPStr == <<58, 58>>

\* the IPv6 literal of the IPv4-mapped address a, "::ffff:a"
MappedIPString(a) == MappedPrefix \o IPString(a)

IPStrs == {IPString(a) : a \in Addr} \cup {BadIPStr}

\* fmt.Sprintf("%s/%d", ip.String(), n)
FormatCIDR(ip, n) == IPString(ip) \o <<Slash>> \o Itoa(n)

-----------------------------------------------------------------------------
(* ripe-country-list.go: generateCIDR, a range as a list of CIDR blocks *)

\* Room of the cidrs slice, in blocks: more than any range of W-bit addresses
\* needs, so only a loop that does not end runs out of it.
MaxBlocks == 2 * W + 2

\* The inner loop `for maxSize > 0 { ... maxSize-- }`: the value of maxSize
\* when the loop is left, by a break or by its condition.
RECURSIVE maxSizeLoop(_, _, _)
maxSizeLoop(s, e, maxSize) ==
    IF ~(maxSize > 0) THEN maxSize
    ELSE LET mask       == Shl(MaxUint, W - maxSize)
             maskedBase == BitAnd(s, mask)
             broadcast  == BitOr(maskedBase, BitNot(mask))
         IN  IF maskedBase # s THEN maxSize
             ELSE IF broadcast > e THEN maxSize
             ELSE maxSizeLoop(s, e, maxSize - 1)

\* maxSize := uint32(32); the inner loop; maxSize++
blockPrefix(s, e) == maxSizeLoop(s, e, W) + 1

\* start++ in place of the step over the emitted block
nextStart_ByOne(s, maxSize) == AddU(s, 1)

\* start += 1 << (32 - maxSize)
nextStart(s, maxSize) == AddU(s, Shl(1, W - maxSize))

\* Parsing of the two arguments; `return nil` when either is no IPv4 address.
generateCIDR_Parse ==
    /\ pc = "entry"
    /\ LET startIP == ParseIP(startIPStr)
           endIP   == ParseIP(endIPStr)
       IN  IF startIP = -1 \/ endIP = -1
           THEN /\ pc' = "returned"
                /\ UNCHANGED <<start, end>>
           ELSE /\ pc' = "loop"
                /\ start' = startIP
                /\ end' = endIP
    /\ cidrs' = <<>>
    /\ UNCHANGED <<startIPStr, endIPStr, cidr, pcSingle, filterVars, extractVars>>

\* One pass of `for start <= end`: a block is appended and start advanced.
generateCIDR_Iterate ==
    /\ pc = "loop"
    /\ start <= end
    /\ Len(cidrs) < MaxBlocks
    /\ LET maxSize == blockPrefix(start, end)
       IN  /\ cidrs' = Append(cidrs, FormatCIDR(start, maxSize))
           /\ start' = nextStart(start, maxSize)
    /\ UNCHANGED <<startIPStr, endIPStr, end, pc, cidr, pcSingle, filterVars, extractVars>>

\* `for start <= end` is left and cidrs returned.
generateCIDR_Return ==
    /\ pc = "loop"
    /\ ~(start <= end)
    /\ pc' = "returned"
    /\ UNCHANGED <<startIPStr, endIPStr, start, end, cidrs, cidr, pcSingle, filterVars, extractVars>>

\* append finds no room left for cidrs: the run ends without a result.
generateCIDR_OutOfMemory ==
    /\ pc = "loop"
    /\ start <= end
    /\ ~(Len(cidrs) < MaxBlocks)
    /\ pc' = "exhausted"
    /\ UNCHANGED <<startIPStr, endIPStr, start, end, cidrs, cidr, pcSingle, filterVars, extractVars>>

-----------------------------------------------------------------------------
(* chicha-whois.go: generateCIDR, a range as one CIDR block *)

\* the start address taken as the network, its host bits not cleared
generateCIDR_Unmasked(startStr, endStr) ==
    LET startIP == ParseIP(startStr)
        endIP   == ParseIP(endStr)
    IN  IF startIP = -1 \/ endIP = -1 THEN <<>>
        ELSE FormatCIDR(startIP, W - Len32(BitXor(startIP, endIP)))

\* the prefix one bit shorter than the two addresses share
generateCIDR_ShortPrefix(startStr, endStr) ==
    LET startIP == ParseIP(startStr)
        endIP   == ParseIP(endStr)
    IN  IF startIP = -1 \/ endIP = -1 THEN <<>>
        ELSE LET diff         == BitXor(startIP, endIP)
                 prefixLength == IF Len32(diff) = W THEN 0 ELSE W - Len32(diff) - 1
                 network      == BitAnd(startIP, BitNot(SubU(Shl(1, W - prefixLength), 1)))
             IN  FormatCIDR(network, prefixLength)

\* One block for the range: the prefix the two addresses share.  "" (the empty
\* string) when either argument is no IPv4 address.
generateCIDR(startStr, endStr) ==
    LET startIP == ParseIP(startStr)
        endIP   == ParseIP(endStr)
    IN  IF startIP = -1 \/ endIP = -1 THEN <<>>
        ELSE LET diff         == BitXor(startIP, endIP)
                 prefixLength == W - Len32(diff)
                 network      == BitAnd(startIP, BitNot(SubU(Shl(1, W - prefixLength), 1)))
             IN  FormatCIDR(network, prefixLength)

CallGenerateCIDR ==
    /\ pcSingle = "call"
    /\ cidr' = generateCIDR(startIPStr, endIPStr)
    /\ pcSingle' = "returned"
    /\ UNCHANGED <<startIPStr, endIPStr, start, end, cidrs, pc, filterVars, extractVars>>

-----------------------------------------------------------------------------
(* chicha-whois.go: filterRedundantCIDRs and what its callers do around it *)

\* net.CIDRMask(n, 32): n one bits, then zero bits
CIDRMask(n) == Shl(MaxUint, W - n)

\* net.IPMask.Size: the number of leading one bits of a mask
RECURSIVE MaskSize(_)
MaskSize(mask) == IF mask = 0 THEN 0 ELSE 1 + MaskSize(Shl(mask, 1))

\* the error result of net.ParseCIDR
NoNet == [err |-> TRUE]

\* net.ParseCIDR(s): the *net.IPNet of "a/n", its IP the address with the
\* host bits cleared; an error without a '/', with an address that is no IPv4
\* literal or a prefix length that is no number in 0..32.  (An IPv6 text gives
\* a 16-byte net; the lists filtered here hold the IPv4 texts of generateCIDR.)
ParseCIDR(s) ==
    LET i == IndexByte(s, Slash, 1)
    IN  IF i = 0 THEN NoNet
        ELSE LET ip == parseIPv4(SubSeq(s, 1, i - 1))
                 n  == Atoi(SubSeq(s, i + 1, Len(s)))
             IN  IF ip = -1 \/ n < 0 \/ n > W THEN NoNet
                 ELSE [IP |-> BitAnd(ip, CIDRMask(n)), Mask |-> CIDRMask(n)]

\* the address alone, the "/n" forgotten
IPNetString_NoMask(ipNet) == IPString(ipNet.IP)

\* net.IPNet.String
IPNetString(ipNet) == FormatCIDR(ipNet.IP, MaskSize(ipNet.Mask))

\* the last bit of the mask left out of the comparison
Contains_ShortMask(ipNet, ip) ==
    BitAnd(ipNet.IP, Shl(ipNet.Mask, 1)) = BitAnd(ip, Shl(ipNet.Mask, 1))

\* net.IPNet.Contains
Contains(ipNet, ip) == BitAnd(ipNet.IP, ipNet.Mask) = BitAnd(ip, ipNet.Mask)

lastIP(ipNet) ==
    LET network == BitAnd(ipNet.IP, ipNet.Mask)
    IN  BitOr(network, BitNot(ipNet.Mask))

\* the two arguments taken the wrong way round
cidrContains_Swapped(outer, inner) ==
    Contains(inner, outer.IP) /\ Contains(inner, lastIP(outer))

cidrContains(outer, inner) ==
    IF ~Contains(outer, inner.IP) THEN FALSE
    ELSE Contains(outer, lastIP(inner))

\* the strings of cidrs that parse, as nets, in order (the first loop)
RECURSIVE parseAll(_)
parseAll(list) ==
    IF list = <<>> THEN <<>>
    ELSE LET ipNet == ParseCIDR(Head(list))
         IN  IF ipNet = NoNet THEN parseAll(Tail(list))
             ELSE <<ipNet>> \o parseAll(Tail(list))

\* narrower networks first
lessCIDR_Reversed(a, b) ==
    IF MaskSize(a.Mask) # MaskSize(b.Mask) THEN MaskSize(a.Mask) > MaskSize(b.Mask)
    ELSE a.IP < b.IP

\* the less function given to sort.Slice: prefix length ascending, then
\* address ascending (bits is 32 for every IPv4 mask)
lessCIDR(a, b) ==
    IF MaskSize(a.Mask) # MaskSize(b.Mask) THEN MaskSize(a.Mask) < MaskSize(b.Mask)
    ELSE a.IP < b.IP

\* x put into the sorted list at its place
RECURSIVE insertCIDR(_, _)
insertCIDR(x, sorted) ==
    IF sorted = <<>> THEN <<x>>
    ELSE IF lessCIDR(x, Head(sorted)) THEN <<x>> \o sorted
    ELSE <<Head(sorted)>> \o insertCIDR(x, Tail(sorted))

\* sort.Slice(parsedCIDRs, less): elements that less does not order are equal,
\* so the sorted list does not depend on the sorting algorithm
RECURSIVE sortCIDRs(_)
sortCIDRs(list) ==
    IF list = <<>> THEN <<>>
    ELSE insertCIDR(Head(list), sortCIDRs(Tail(list)))

\* the loop over the sorted candidates: kept grows by every candidate that no
\* net kept so far contains
RECURSIVE keepLoop(_, _)
keepLoop(candidates, keptCIDRs) ==
    IF candidates = <<>> THEN keptCIDRs
    ELSE LET candidate == Head(candidates)
             redundant == \E k \in DOMAIN keptCIDRs : cidrContains(keptCIDRs[k], candidate)
         IN  keepLoop(Tail(candidates),
                      IF redundant THEN keptCIDRs ELSE Append(keptCIDRs, candidate))

filterRedundantCIDRs(list) ==
    LET keptCIDRs == keepLoop(sortCIDRs(parseAll(list)), <<>>)
    IN  [k \in DOMAIN keptCIDRs |-> IPNetString(keptCIDRs[k])]

\* removeDuplicates: the first occurrence of every string, in order
RECURSIVE removeDuplicatesFrom(_, _)
removeDuplicatesFrom(elements, result) ==
    IF elements = <<>> THEN result
    ELSE removeDuplicatesFrom(Tail(elements),
             IF \E k \in DOMAIN result : result[k] = Head(elements)
             THEN result ELSE Append(result, Head(elements)))

removeDuplicates(elements) == removeDuplicatesFrom(elements, <<>>)

RECURSIVE insertString(_, _)
insertString(x, sorted) ==
    IF sorted = <<>> THEN <<x>>
    ELSE IF StrLess(x, Head(sorted)) THEN <<x>> \o sorted
    ELSE <<Head(sorted)>> \o insertString(x, Tail(sorted))

\* sort.Strings: ascending in the byte order of the strings
RECURSIVE sortStrings(_)
sortStrings(list) ==
    IF list = <<>> THEN <<>>
    ELSE insertString(Head(list), sortStrings(Tail(list)))

\* The CIDR strings a list is drawn from, as generateCIDR writes them: for
\* every prefix length the block that holds the last address and the block
\* beside it (so there are nested, disjoint and equal blocks of every size);
\* the three widest blocks written with a host bit set; and a string
\* net.ParseCIDR rejects (prefix length 33).
\* the mask with its bits inverted (a wildcard mask)
ipMaskToDotted_Wildcard(mask) == Itoa(BitNot(mask))

\* ipMaskToDotted: the bytes of the mask in decimal, one octet here
ipMaskToDotted(mask) == Itoa(mask)

\* the error result of cidrToRoute
NoRoute == [err |-> TRUE]

\* cidrToRoute(cidr): the network address and the netmask, or an error
cidrToRoute(c) ==
    LET ipNet == ParseCIDR(c)
    IN  IF ipNet = NoNet THEN NoRoute
        ELSE [startIP |-> IPString(ipNet.IP), netmask |-> ipMaskToDotted(ipNet.Mask)]

InputCIDRs ==
    {FormatCIDR(BitAnd(MaxUint, CIDRMask(n)), n) : n \in 0 .. W}
    \cup {FormatCIDR(BitXor(BitAnd(MaxUint, CIDRMask(n)), Pow2(W - n)), n) : n \in 1 .. W}
    \cup {FormatCIDR(1, 0), FormatCIDR(1, 1), FormatCIDR(Pow2(W - 1) + 1, 1)}
    \cup {FormatCIDR(0, W + 1)}

\* the lists of at most n strings of S
RECURSIVE ListsUpTo(_, _)
ListsUpTo(S, n) ==
    IF n = 0 THEN {<<>>}
    ELSE LET shorter == ListsUpTo(S, n - 1)
         IN  shorter \cup {Append(l, x) : l \in {m \in shorter : Len(m) = n - 1}, x \in S}

-----------------------------------------------------------------------------
(* Package strings, on sequences of bytes *)

\* unicode.IsSpace, for the bytes of ASCII
IsSpace(c) == c \in {9, 10, 11, 12, 13, 32}

RECURSIVE TrimLeft(_)
TrimLeft(s) ==
    IF s # <<>> /\ IsSpace(Head(s)) THEN TrimLeft(Tail(s)) ELSE s

RECURSIVE TrimRight(_)
TrimRight(s) ==
    IF s # <<>> /\ IsSpace(s[Len(s)]) THEN TrimRight(SubSeq(s, 1, Len(s) - 1)) ELSE s

TrimSpace(s) == TrimRight(TrimLeft(s))

HasPrefix(s, prefix) ==
    Len(s) >= Len(prefix) /\ SubSeq(s, 1, Len(prefix)) = prefix

\* strings.Fields: the maximal runs of bytes that are no white space; word is
\* the run being read
RECURSIVE FieldsFrom(_, _)
FieldsFrom(s, word) ==
    IF s = <<>> THEN (IF word = <<>> THEN <<>> ELSE <<word>>)
    ELSE IF IsSpace(Head(s))
         THEN (IF word = <<>> THEN <<>> ELSE <<word>>) \o FieldsFrom(Tail(s), <<>>)
         ELSE FieldsFrom(Tail(s), Append(word, Head(s)))

Fields(s) == FieldsFrom(s, <<>>)

\* strings.Join
RECURSIVE Join(_, _)
Join(elems, sep) ==
    IF elems = <<>> THEN <<>>
    ELSE IF Len(elems) = 1 THEN elems[1]
    ELSE elems[1] \o sep \o Join(Tail(elems), sep)

\* strings.Split(s, sep) for a separator of one byte; piece is the part being read
RECURSIVE SplitFrom(_, _, _)
SplitFrom(s, sep, piece) ==
    IF s = <<>> THEN <<piece>>
    ELSE IF Head(s) = sep THEN <<piece>> \o SplitFrom(Tail(s), sep, <<>>)
    ELSE SplitFrom(Tail(s), sep, Append(piece, Head(s)))

Split(s, sep) == SplitFrom(s, sep, <<>>)

ToUpper(s) == [i \in DOMAIN s |-> IF s[i] \in 97 .. 122 THEN s[i] - 32 ELSE s[i]]

ToLower(s) == [i \in DOMAIN s |-> IF s[i] \in 65 .. 90 THEN s[i] + 32 ELSE s[i]]

\* strings.Contains
StrContains(s, substr) ==
    \E i \in 0 .. Len(s) - Len(substr) : SubSeq(s, i + 1, i + Len(substr)) = substr

-----------------------------------------------------------------------------
(* chicha-whois.go: extractCountryCIDRs, extractCIDRsByKeywordsAndCountry *)

\* "inetnum:"
InetnumKey == <<105, 110, 101, 116, 110, 117, 109, 58>>

\* "country:"
CountryKey == <<99, 111, 117, 110, 116, 114, 121, 58>>

\* The inner loop `for scanner.Scan()`: the index of the line that ends the
\* block read after `from` lines, an empty line or one past the last line.
RECURSIVE blockEnd(_)
blockEnd(from) ==
    IF from + 1 > Len(db) THEN from + 1
    ELSE IF db[from + 1] = <<>> THEN from + 1
    ELSE blockEnd(from + 1)

\* blockLines of the block read after `from` lines
blockLinesAt(from) == SubSeq(db, from + 1, blockEnd(from) - 1)

\* the lines the scanner has yielded once that block is read
scannedAfter(from) == IF blockEnd(from) > Len(db) THEN Len(db) ELSE blockEnd(from)

\* the first line that starts with key kept, the later ones passed over
RECURSIVE lastLineWith_First(_, _, _)
lastLineWith_First(blockLines, key, line) ==
    IF blockLines = <<>> THEN line
    ELSE lastLineWith_First(Tail(blockLines), key,
             IF line = <<>> /\ HasPrefix(TrimSpace(Head(blockLines)), key)
             THEN TrimSpace(Head(blockLines)) ELSE line)

\* The loop over blockLines: the last line, trimmed, that starts with key, ""
\* when there is none.  (The `else if` never matters: no line starts with both.)
RECURSIVE lastLineWith(_, _, _)
lastLineWith(blockLines, key, line) ==
    IF blockLines = <<>> THEN line
    ELSE lastLineWith(Tail(blockLines), key,
             IF HasPrefix(TrimSpace(Head(blockLines)), key)
             THEN TrimSpace(Head(blockLines)) ELSE line)

\* inetnumToCIDR: the []string for an inetnum line, of one CIDR or none
inetnumToCIDR(inetnumLine) ==
    LET parts == Fields(inetnumLine)
    IN  IF Len(parts) < 2 THEN <<>>
        ELSE LET ipRangeStr   == Join(Tail(parts), <<32>>)
                 ipRangeParts == Split(ipRangeStr, 45)
             IN  IF Len(ipRangeParts) = 2
                 THEN LET c == generateCIDR(TrimSpace(ipRangeParts[1]),
                                            TrimSpace(ipRangeParts[2]))
                      IN  IF c # <<>> THEN <<c>> ELSE <<>>
                 ELSE <<>>

\* the block's country compared as written, not upper-cased
countryBlockCIDRs_CaseSensitive(blockLines, cc) ==
    LET inetnumLine == lastLineWith(blockLines, InetnumKey, <<>>)
        countryLine == lastLineWith(blockLines, CountryKey, <<>>)
    IN  IF inetnumLine # <<>> /\ countryLine # <<>>
        THEN LET fields == Fields(countryLine)
             IN  IF Len(fields) >= 2 /\ fields[2] = cc
                 THEN inetnumToCIDR(inetnumLine)
                 ELSE <<>>
        ELSE <<>>

\* extractCountryCIDRs, one block: what the block adds to ipRanges.  The body
\* repeats inetnumToCIDR's statements, so the operator stands for them.
countryBlockCIDRs(blockLines, cc) ==
    LET inetnumLine == lastLineWith(blockLines, InetnumKey, <<>>)
        countryLine == lastLineWith(blockLines, CountryKey, <<>>)
    IN  IF inetnumLine # <<>> /\ countryLine # <<>>
        THEN LET fields == Fields(countryLine)
             IN  IF Len(fields) >= 2 /\ ToUpper(fields[2]) = cc
                 THEN inetnumToCIDR(inetnumLine)
                 ELSE <<>>
        ELSE <<>>

\* a block with no country line skipped even when no country is asked for
searchBlockCIDRs_CountryRequired(blockLines, cc, kws) ==
    LET inetnumLine == lastLineWith(blockLines, InetnumKey, <<>>)
        countryLine == lastLineWith(blockLines, CountryKey, <<>>)
        fields      == Fields(countryLine)
        countrySkip ==
            \/ countryLine = <<>>
            \/ cc # <<>> /\ (Len(fields) < 2 \/ ToUpper(fields[2]) # cc)
        blockTextLower == ToLower(Join(blockLines, <<10>>))
        match == \E k \in DOMAIN kws :
                    kws[k] # <<>> /\ StrContains(blockTextLower, kws[k])
    IN  IF countrySkip THEN <<>>
        ELSE IF Len(kws) = 0
             THEN (IF inetnumLine # <<>> THEN inetnumToCIDR(inetnumLine) ELSE <<>>)
        ELSE IF match /\ inetnumLine # <<>> THEN inetnumToCIDR(inetnumLine)
        ELSE <<>>

\* match set only when every keyword occurs in the block
searchBlockCIDRs_AllKeywords(blockLines, cc, kws) ==
    LET inetnumLine == lastLineWith(blockLines, InetnumKey, <<>>)
        countryLine == lastLineWith(blockLines, CountryKey, <<>>)
        fields      == Fields(countryLine)
        countrySkip ==
            /\ cc # <<>>
            /\ \/ countryLine = <<>>
               \/ Len(fields) < 2
               \/ ToUpper(fields[2]) # cc
        blockTextLower == ToLower(Join(blockLines, <<10>>))
        match == \A k \in DOMAIN kws :
                    kws[k] = <<>> \/ StrContains(blockTextLower, kws[k])
    IN  IF countrySkip THEN <<>>
        ELSE IF Len(kws) = 0
             THEN (IF inetnumLine # <<>> THEN inetnumToCIDR(inetnumLine) ELSE <<>>)
        ELSE IF match /\ inetnumLine # <<>> THEN inetnumToCIDR(inetnumLine)
        ELSE <<>>

\* inetnumLine declared outside the loop over the blocks: a block with no
\* inetnum line is left with the one of the lines read before it
searchBlockCIDRs_Stale(blockLines, cc, kws) ==
    LET inetnumLine == lastLineWith(SubSeq(db, 1, scanned) \o blockLines, InetnumKey, <<>>)
        countryLine == lastLineWith(blockLines, CountryKey, <<>>)
        fields      == Fields(countryLine)
        countrySkip ==
            /\ cc # <<>>
            /\ \/ countryLine = <<>>
               \/ Len(fields) < 2
               \/ ToUpper(fields[2]) # cc
        blockTextLower == ToLower(Join(blockLines, <<10>>))
        match == \E k \in DOMAIN kws :
                    kws[k] # <<>> /\ StrContains(blockTextLower, kws[k])
    IN  IF countrySkip THEN <<>>
        ELSE IF Len(kws) = 0
             THEN (IF inetnumLine # <<>> THEN inetnumToCIDR(inetnumLine) ELSE <<>>)
        ELSE IF match /\ inetnumLine # <<>> THEN inetnumToCIDR(inetnumLine)
        ELSE <<>>

\* the empty keyword looked for like any other: every text contains it
searchBlockCIDRs_EmptyMatches(blockLines, cc, kws) ==
    LET inetnumLine == lastLineWith(blockLines, InetnumKey, <<>>)
        countryLine == lastLineWith(blockLines, CountryKey, <<>>)
        fields      == Fields(countryLine)
        countrySkip ==
            /\ cc # <<>>
            /\ \/ countryLine = <<>>
               \/ Len(fields) < 2
               \/ ToUpper(fields[2]) # cc
        blockTextLower == ToLower(Join(blockLines, <<10>>))
        match == \E k \in DOMAIN kws : StrContains(blockTextLower, kws[k])
    IN  IF countrySkip THEN <<>>
        ELSE IF Len(kws) = 0
             THEN (IF inetnumLine # <<>> THEN inetnumToCIDR(inetnumLine) ELSE <<>>)
        ELSE IF match /\ inetnumLine # <<>> THEN inetnumToCIDR(inetnumLine)
        ELSE <<>>

\* extractCIDRsByKeywordsAndCountry, one block: what the block adds to ipRanges
searchBlockCIDRs(blockLines, cc, kws) ==
    LET inetnumLine == lastLineWith(blockLines, InetnumKey, <<>>)
        countryLine == lastLineWith(blockLines, CountryKey, <<>>)
        fields      == Fields(countryLine)
        countrySkip ==
            /\ cc # <<>>
            /\ \/ countryLine = <<>>
               \/ Len(fields) < 2
               \/ ToUpper(fields[2]) # cc
        blockTextLower == ToLower(Join(blockLines, <<10>>))
        match == \E k \in DOMAIN kws :
                    kws[k] # <<>> /\ StrContains(blockTextLower, kws[k])
    IN  IF countrySkip THEN <<>>
        ELSE IF Len(kws) = 0
             THEN (IF inetnumLine # <<>> THEN inetnumToCIDR(inetnumLine) ELSE <<>>)
        ELSE IF match /\ inetnumLine # <<>> THEN inetnumToCIDR(inetnumLine)
        ELSE <<>>

\* os.Open fails: the error is printed and nil returned.
extract_OpenFails ==
    /\ pcExtract = "entry"
    /\ ioErr = "open"
    /\ found' = <<>>
    /\ pcExtract' = "returned"
    /\ UNCHANGED <<rangeVars, filterVars, db, ioErr, call, searchName, countryCode, keywords, scanned>>

\* os.Open succeeds; countryCode = strings.ToUpper(countryCode); in the search,
\* every keyword is lower-cased in place.
extract_Open ==
    /\ pcExtract = "entry"
    /\ ioErr # "open"
    /\ countryCode' = ToUpper(countryCode)
    /\ keywords' = IF call = "search"
                   THEN [k \in DOMAIN keywords |-> ToLower(keywords[k])]
                   ELSE keywords
    /\ pcExtract' = "scan"
    /\ UNCHANGED <<rangeVars, filterVars, db, ioErr, call, searchName, scanned, found>>

\* One pass of the outer `for` that reads a block with lines in it: of
\* extractCIDRsByKeywordsAndCountry in the search, of extractCountryCIDRs in
\* the other callers.
extract_Block ==
    /\ pcExtract = "scan"
    /\ blockLinesAt(scanned) # <<>>
    /\ scanned' = scannedAfter(scanned)
    /\ found' = found \o
                (IF call = "search"
                 THEN searchBlockCIDRs(blockLinesAt(scanned), countryCode, keywords)
                 ELSE countryBlockCIDRs(blockLinesAt(scanned), countryCode))
    /\ UNCHANGED <<rangeVars, filterVars, db, ioErr, call, searchName, countryCode, keywords, pcExtract>>

\* The pass that reads no line into blockLines: `break`, and ipRanges is
\* returned.  scanner.Err() is never called, so a Scan that stopped on a read
\* error is taken for the end of the file.
extract_Return ==
    /\ pcExtract = "scan"
    /\ blockLinesAt(scanned) = <<>>
    /\ scanned' = scannedAfter(scanned)
    /\ pcExtract' = "returned"
    /\ UNCHANGED <<rangeVars, filterVars, db, ioErr, call, searchName, countryCode, keywords, found>>

\* The caller's `if len(ipRanges) == 0`: "Nothing found ..." (main), "No IP
\* ranges found ..." (createBindACL and the like), and return.
caller_NothingFound ==
    /\ pcExtract = "returned"
    /\ Len(found) = 0
    /\ pcExtract' = "nothingFound"
    /\ UNCHANGED <<rangeVars, filterVars, db, ioErr, call, searchName, countryCode, keywords, scanned, found>>

\* the nested-subnet filter left out by every caller
caller_PostProcess_Unfiltered ==
    /\ pcExtract = "returned"
    /\ ~(Len(found) = 0)
    /\ ipRanges' = sortStrings(removeDuplicates(found))
    /\ pcExtract' = "formatted"
    /\ UNCHANGED <<rangeVars, input, filtered, refiltered, routes, pcFilter,
                   db, ioErr, call, searchName, countryCode, keywords, scanned, found>>

\* The caller's post-processing of a list that is not empty, after which the
\* list is formatted: removeDuplicates, filterRedundantCIDRs (main's -search,
\* createBindACLFiltered, createOpenVPNExcludeFiltered; not createBindACL and
\* createOpenVPNExclude), sort.Strings.
caller_PostProcess ==
    /\ pcExtract = "returned"
    /\ ~(Len(found) = 0)
    /\ ipRanges' = IF call = "createBindACL"
                   THEN sortStrings(removeDuplicates(found))
                   ELSE sortStrings(filterRedundantCIDRs(removeDuplicates(found)))
    /\ pcExtract' = "formatted"
    /\ UNCHANGED <<rangeVars, input, filtered, refiltered, routes, pcFilter,
                   db, ioErr, call, searchName, countryCode, keywords, scanned, found>>

\* "Ru", "ua", "ru", "RU"
StrRu == <<82, 117>>

Strua == <<117, 97>>

Strru == <<114, 117>>

StrRU == <<82, 85>>

\* "Ok", "ok", "zz"
StrOk == <<79, 107>>

Strok == <<111, 107>>

Strzz == <<122, 122>>

\* "inetnum:  startStr - endStr"
InetnumLineOf(startStr, endStr) ==
    InetnumKey \o <<32, 32>> \o startStr \o <<32, 45, 32>> \o endStr

\* "inetnum:  a - b"
InetnumLine(a, b) == InetnumLineOf(IPString(a), IPString(b))

\* "country:  cc"
CountryLine(cc) == CountryKey \o <<32, 32>> \o cc

\* "descr: OK"
DescrLine == <<100, 101, 115, 99, 114, 58, 32, 79, 75>>

\* The lines a database is made of: the empty line, an inetnum that is no
\* single CIDR block (2 - 5), two countries and a line of free text.
DbLines ==
    {<<>>, InetnumLine(2, 5), CountryLine(StrRu), CountryLine(Strua), DescrLine}

\* The calls made: the country lists, unfiltered and filtered, and the search
\* with and without a country, with and without keywords.
Calls ==
    {[call |-> "createBindACL", countryCode |-> Strru, keywords |-> <<>>],
     [call |-> "createBindACLFiltered", countryCode |-> StrRU, keywords |-> <<>>],
     [call |-> "search", countryCode |-> <<>>, keywords |-> <<>>],
     [call |-> "search", countryCode |-> Strru, keywords |-> <<>>],
     [call |-> "search", countryCode |-> <<>>, keywords |-> <<StrOk, Strzz>>],
     [call |-> "search", countryCode |-> StrRU, keywords |-> <<Strok>>]}

\* The inetnum lines of a database of ranges: blocks side by side and nested
\* (2 - 5, 4 - 5, 8 - 9), a range written backwards, an IPv6 address that is
\* no IPv4 address, IPv4-mapped IPv6 addresses.
RangeLines ==
    {<<>>, InetnumLine(2, 5), InetnumLine(4, 5), InetnumLine(8, 9),
     InetnumLine(5, 2),
     InetnumLineOf(BadIPStr, IPString(5)),
     InetnumLineOf(MappedIPString(4), MappedIPString(5))}

\* The search for every record: no country, no keyword.
RangeCalls ==
    {[call |-> "search", countryCode |-> <<>>, keywords |-> <<>>]}

-----------------------------------------------------------------------------
(* Idle values of the variables a scenario does not use *)

RangeIdle ==
    /\ startIPStr = <<>>
    /\ endIPStr = <<>>
    /\ start = 0
    /\ end = 0
    /\ cidrs = <<>>
    /\ pc = "idle"
    /\ cidr = <<>>
    /\ pcSingle = "idle"

ExtractIdle ==
    /\ db = <<>>
    /\ ioErr = "none"
    /\ call = "none"
    /\ searchName = <<>>
    /\ countryCode = <<>>
    /\ keywords = <<>>
    /\ scanned = 0
    /\ found = <<>>
    /\ pcExtract = "idle"

FilterIdle ==
    /\ input = <<>>
    /\ filtered = <<>>
    /\ refiltered = <<>>
    /\ ipRanges = <<>>
    /\ routes = <<>>
    /\ pcFilter = "idle"

-----------------------------------------------------------------------------
(* The range conversions on every pair of arguments *)

InitRange ==
    /\ startIPStr \in IPStrs
    /\ endIPStr \in IPStrs
    /\ start = 0
    /\ end = 0
    /\ cidrs = <<>>
    /\ pc = "entry"
    /\ cidr = <<>>
    /\ pcSingle = "call"
    /\ FilterIdle
    /\ ExtractIdle

NextRange ==
    \/ generateCIDR_Parse
    \/ generateCIDR_Iterate
    \/ generateCIDR_Return
    \/ generateCIDR_OutOfMemory
    \/ CallGenerateCIDR

SpecRange == InitRange /\ [][NextRange]_vars

-----------------------------------------------------------------------------
(* The filter and the callers' post-processing on every list of CIDR strings *)

\* filterRedundantCIDRs(input)
CallFilter ==
    /\ pcFilter = "start"
    /\ filtered' = filterRedundantCIDRs(input)
    /\ pcFilter' = "filtered"
    /\ UNCHANGED <<rangeVars, extractVars, input, refiltered, ipRanges, routes>>

\* filterRedundantCIDRs applied to its own result
CallFilterAgain ==
    /\ pcFilter = "filtered"
    /\ refiltered' = filterRedundantCIDRs(filtered)
    /\ pcFilter' = "refiltered"
    /\ UNCHANGED <<rangeVars, extractVars, input, filtered, ipRanges, routes>>

\* main (-search), createBindACLFiltered, createOpenVPNExcludeFiltered:
\*   ipRanges = removeDuplicates(ipRanges)
\*   ipRanges = filterRedundantCIDRs(ipRanges)
\*   sort.Strings(ipRanges)
\* and the list goes to the formatter.
PostProcessFiltered ==
    /\ pcFilter = "start"
    /\ ipRanges' = sortStrings(filterRedundantCIDRs(removeDuplicates(input)))
    /\ pcFilter' = "formatted"
    /\ UNCHANGED <<rangeVars, extractVars, input, filtered, refiltered, routes>>

InitFilter ==
    /\ RangeIdle
    /\ ExtractIdle
    /\ input \in ListsUpTo(InputCIDRs, MaxList)
    /\ filtered = <<>>
    /\ refiltered = <<>>
    /\ ipRanges = <<>>
    /\ routes = <<>>
    /\ pcFilter = "start"

NextFilter ==
    \/ CallFilter
    \/ CallFilterAgain
    \/ PostProcessFiltered

SpecFilter == InitFilter /\ [][NextFilter]_vars

-----------------------------------------------------------------------------
(* cidrToRoute on every CIDR text and on texts that are none *)

\* every "a/n" with n up to one past the width, and every address with no "/n"
RouteCIDRs ==
    {FormatCIDR(a, n) : a \in Addr, n \in 0 .. W + 1} \cup IPStrs

\* the loop over ipRanges of the OpenVPN formats: cidrToRoute(cidr)
CallCidrToRoute ==
    /\ pcFilter = "start"
    /\ routes' = [i \in DOMAIN input |-> cidrToRoute(input[i])]
    /\ pcFilter' = "routed"
    /\ UNCHANGED <<rangeVars, extractVars, input, filtered, refiltered, ipRanges>>

InitRoute ==
    /\ RangeIdle
    /\ ExtractIdle
    /\ input \in {<<c>> : c \in RouteCIDRs}
    /\ filtered = <<>>
    /\ refiltered = <<>>
    /\ ipRanges = <<>>
    /\ routes = <<>>
    /\ pcFilter = "start"

NextRoute == CallCidrToRoute

SpecRoute == InitRoute /\ [][NextRoute]_vars

-----------------------------------------------------------------------------
(* The extraction functions on every database of at most MaxLines lines *)

\* A run on database lines and call c: the file cannot be opened (no line is
\* read), or the scanner yields lines up to the end of file or a read error.
InitRun(lines, c) ==
    /\ RangeIdle
    /\ FilterIdle
    /\ \/ ioErr = "open" /\ db = <<>>
       \/ ioErr \in {"none", "read"} /\ db = lines
    /\ call = c.call
    /\ searchName = <<>>
    /\ countryCode = c.countryCode
    /\ keywords = c.keywords
    /\ scanned = 0
    /\ found = <<>>
    /\ pcExtract = "entry"

InitExtract == \E lines \in ListsUpTo(DbLines, MaxLines) : \E c \in Calls : InitRun(lines, c)

NextExtract ==
    \/ extract_OpenFails
    \/ extract_Open
    \/ extract_Block
    \/ extract_Return
    \/ caller_NothingFound
    \/ caller_PostProcess

SpecExtract == InitExtract /\ [][NextExtract]_vars

InitConvert ==
    \E lines \in ListsUpTo(RangeLines, MaxLines) : \E c \in RangeCalls : InitRun(lines, c)

SpecConvert == InitConvert /\ [][NextExtract]_vars

\* The lines of a database whose records repeat an attribute: two inetnum
\* lines, two country lines.
RepeatLines ==
    {<<>>, InetnumLine(2, 5), InetnumLine(8, 9), CountryLine(StrRu), CountryLine(Strua)}

\* The country list and the search for a country.
RepeatCalls ==
    {[call |-> "createBindACL", countryCode |-> Strru, keywords |-> <<>>],
     [call |-> "search", countryCode |-> Strru, keywords |-> <<>>]}

InitRepeat ==
    \E lines \in ListsUpTo(RepeatLines, MaxLines) : \E c \in RepeatCalls : InitRun(lines, c)

SpecRepeat == InitRepeat /\ [][NextExtract]_vars

\* The lines of a database whose keys are written in other letter cases:
\* "Inetnum:  2 - 5" and "COUNTRY:  RU" beside the lower-case lines.
KeyLines ==
    {<<>>, InetnumLine(2, 5), CountryLine(StrRu),
     <<73>> \o Tail(InetnumLine(2, 5)),
     ToUpper(CountryKey) \o <<32, 32>> \o StrRU}

InitKeys ==
    \E lines \in ListsUpTo(KeyLines, MaxLines) : \E c \in RepeatCalls : InitRun(lines, c)

SpecKeys == InitKeys /\ [][NextExtract]_vars

-----------------------------------------------------------------------------
(* ripe-country-list.go: processRIPEdb, the search by name *)

\* The loop `for start <= end` of the multi-block generateCIDR as a whole: the
\* list, and whether the loop ended (it has not when cidrs is out of room).
RECURSIVE cidrLoop(_, _, _)
cidrLoop(s, e, list) ==
    IF ~(s <= e) THEN [cidrs |-> list, ended |-> TRUE]
    ELSE IF ~(Len(list) < MaxBlocks) THEN [cidrs |-> list, ended |-> FALSE]
    ELSE LET maxSize == blockPrefix(s, e)
         IN  cidrLoop(nextStart(s, maxSize), e, Append(list, FormatCIDR(s, maxSize)))

\* generateCIDR of ripe-country-list.go, called: nil for an argument that is
\* no IPv4 address
generateCIDRs(startStr, endStr) ==
    LET startIP == ParseIP(startStr)
        endIP   == ParseIP(endStr)
    IN  IF startIP = -1 \/ endIP = -1 THEN [cidrs |-> <<>>, ended |-> TRUE]
        ELSE cidrLoop(startIP, endIP, <<>>)

\* the index of the first occurrence of sub in s from index i on, 0 for none
RECURSIVE IndexFrom(_, _, _)
IndexFrom(s, sub, i) ==
    IF i + Len(sub) - 1 > Len(s) THEN 0
    ELSE IF SubSeq(s, i, i + Len(sub) - 1) = sub THEN i
    ELSE IndexFrom(s, sub, i + 1)

\* rangeRegex.FindStringSubmatch(line) for `inetnum:\s+(\S+)\s+-\s+(\S+)`: the
\* two submatches, <<>> for no match.  After "inetnum:" come white space, a
\* word, white space, "-", white space, a word.  (Read at the first
\* "inetnum:" of the line.)
rangeRegexMatch(line) ==
    LET i    == IndexFrom(line, InetnumKey, 1)
        rest == SubSeq(line, i + Len(InetnumKey), Len(line))
        fs   == Fields(rest)
    IN  IF i = 0 \/ rest = <<>> THEN <<>>
        ELSE IF ~IsSpace(rest[1]) \/ Len(fs) < 3 THEN <<>>
        ELSE IF fs[2] # <<45>> THEN <<>>
        ELSE <<fs[1], fs[3]>>

\* formatRanges(cidrs, "%s;"), the format of whitelistTestCookie
formatRanges(list) == [i \in DOMAIN list |-> list[i] \o <<59>>]

\* the inner `for scanner.Scan()`: the index of the first line after `from`
\* lines that the regexp matches, 0 when the scanner runs out first
RECURSIVE nextRangeLine(_)
nextRangeLine(from) ==
    IF from + 1 > Len(db) THEN 0
    ELSE IF rangeRegexMatch(db[from + 1]) # <<>> THEN from + 1
    ELSE nextRangeLine(from + 1)

\* os.Open fails: the error is printed and nil returned.
process_OpenFails ==
    /\ call = "processRIPEdb"
    /\ pcExtract = "entry"
    /\ ioErr = "open"
    /\ found' = <<>>
    /\ pcExtract' = "returned"
    /\ UNCHANGED <<rangeVars, filterVars, db, ioErr, call, searchName, countryCode, keywords, scanned>>

process_Open ==
    /\ call = "processRIPEdb"
    /\ pcExtract = "entry"
    /\ ioErr # "open"
    /\ pcExtract' = "scan"
    /\ UNCHANGED <<rangeVars, filterVars, db, ioErr, call, searchName, countryCode, keywords,
                   scanned, found>>

\* One pass of the outer `for scanner.Scan()`: a line is read; when it holds
\* searchName the inner loop reads on to the next line the regexp matches and
\* the CIDRs of that range are appended to results.
process_Line ==
    /\ call = "processRIPEdb"
    /\ pcExtract = "scan"
    /\ scanned < Len(db)
    /\ LET line == db[scanned + 1]
           j    == nextRangeLine(scanned + 1)
       IN  IF ~StrContains(ToLower(line), ToLower(searchName))
           THEN /\ scanned' = scanned + 1
                /\ UNCHANGED <<found, pcExtract>>
           ELSE IF j = 0
           THEN /\ scanned' = Len(db)
                /\ UNCHANGED <<found, pcExtract>>
           ELSE LET matches      == rangeRegexMatch(db[j])
                    parsedRanges == generateCIDRs(matches[1], matches[2])
                IN  /\ scanned' = j
                    /\ found' = found \o formatRanges(parsedRanges.cidrs)
                    /\ pcExtract' = IF parsedRanges.ended THEN pcExtract ELSE "exhausted"
    /\ UNCHANGED <<rangeVars, filterVars, db, ioErr, call, searchName, countryCode, keywords>>

\* The scanner has no more lines: scanner.Err() is printed when set, and
\* results returned.
process_Return ==
    /\ call = "processRIPEdb"
    /\ pcExtract = "scan"
    /\ ~(scanned < Len(db))
    /\ pcExtract' = "returned"
    /\ UNCHANGED <<rangeVars, filterVars, db, ioErr, call, searchName, countryCode, keywords,
                   scanned, found>>

\* The lines of a database searched by name: the empty line, three inetnum
\* lines (the last one ends at the last address) and a line of free text.
ProcessLines ==
    {<<>>, InetnumLine(2, 5), InetnumLine(8, 9), InetnumLine(MaxUint, MaxUint), DescrLine}

InitProcess ==
    /\ RangeIdle
    /\ FilterIdle
    /\ \/ ioErr = "open" /\ db = <<>>
       \/ ioErr \in {"none", "read"} /\ db \in ListsUpTo(ProcessLines, MaxLines)
    /\ call = "processRIPEdb"
    /\ searchName = Strok
    /\ countryCode = <<>>
    /\ keywords = <<>>
    /\ scanned = 0
    /\ found = <<>>
    /\ pcExtract = "entry"

NextProcess ==
    \/ process_OpenFails
    \/ process_Open
    \/ process_Line
    \/ process_Return

SpecProcess == InitProcess /\ [][NextProcess]_vars

-----------------------------------------------------------------------------
(* What a CIDR string denotes, and what a range asks for *)

\* the address and the prefix length written in "a/n"
CidrBase(s) == Atoi(SubSeq(s, 1, IndexByte(s, Slash, 1) - 1))

CidrLen(s) == Atoi(SubSeq(s, IndexByte(s, Slash, 1) + 1, Len(s)))

\* the number of addresses of a block of prefix length n
BlockSize(n) == Pow2(W - n)

\* the addresses that share their first CidrLen(s) bits with CidrBase(s)
Covered(s) ==
    {a \in Addr : a \div BlockSize(CidrLen(s)) = CidrBase(s) \div BlockSize(CidrLen(s))}

Aligned(s) ==
    /\ CidrLen(s) \in 0 .. W
    /\ CidrBase(s) \in Addr
    /\ CidrBase(s) % BlockSize(CidrLen(s)) = 0

\* the range the two arguments denote
Start0 == ParseIP(startIPStr)

End0 == ParseIP(endIPStr)

ValidRange == Start0 # -1 /\ End0 # -1 /\ Start0 <= End0

\* the call of the multi-block generateCIDR is over, one way or the other
Over == pc \in {"returned", "exhausted"}

\* the number of blocks of the least list of CIDR blocks whose union is lo..hi:
\* the blocks of the binary tree under [base, base + size) that lie inside
\* lo..hi and whose parent does not
RECURSIVE MinBlocks(_, _, _, _)
MinBlocks(base, size, lo, hi) ==
    IF base + size - 1 < lo \/ base > hi THEN 0
    ELSE IF lo <= base /\ base + size - 1 <= hi THEN 1
    ELSE MinBlocks(base, size \div 2, lo, hi)
         + MinBlocks(base + size \div 2, size \div 2, lo, hi)

\* C1: for every start <= end the call returns a list of blocks in which every
\* address of start..end lies in exactly one block and no block holds an
\* address outside start..end.
C1_ExactCoverage ==
    (ValidRange /\ Over) =>
        /\ pc = "returned"
        /\ \A a \in Addr :
              Cardinality({i \in DOMAIN cidrs : a \in Covered(cidrs[i])})
                  = IF a \in Start0 .. End0 THEN 1 ELSE 0

\* C3: when advancing start past the emitted block wraps around the address
\* space, the loop stops after that emission: its condition start <= end no
\* longer holds.
C3_StopsAfterWrap ==
    [][(generateCIDR_Iterate /\ start' < start) => ~(start' <= end')]_vars

\* C4: for every start <= end the call returns a list of the least length
\* among the lists of CIDR blocks whose union is start..end.
C4_Minimal ==
    (ValidRange /\ Over) =>
        /\ pc = "returned"
        /\ Len(cidrs) = MinBlocks(0, Pow2(W), Start0, End0)

\* C5: the returned blocks are contiguous and in strictly ascending order: the
\* first starts at start, each later one at the address that follows the last
\* address of the one before it.
C5_AscendingContiguous ==
    (ValidRange /\ pc = "returned") =>
        /\ Len(cidrs) >= 1
        /\ CidrBase(cidrs[1]) = Start0
        /\ \A i \in 1 .. Len(cidrs) - 1 :
              /\ CidrBase(cidrs[i + 1]) = CidrBase(cidrs[i]) + BlockSize(CidrLen(cidrs[i]))
              /\ CidrBase(cidrs[i]) < CidrBase(cidrs[i + 1])

C5_Witness ==
    /\ ValidRange
    /\ pc = "returned"
    /\ Len(cidrs) >= 3

\* C6: every block emitted by either conversion has a prefix length in 0..W
\* and a base address whose bits below the prefix length are all zero.
C6_Aligned ==
    /\ \A i \in DOMAIN cidrs : Aligned(cidrs[i])
    /\ cidr # <<>> => Aligned(cidr)

C6_Witness ==
    /\ Len(cidrs) >= 2
    /\ pcSingle = "returned"
    /\ cidr # <<>>
    /\ CidrLen(cidr) \in 1 .. W - 1
    /\ Start0 # CidrBase(cidr)

-----------------------------------------------------------------------------
(* The filter's claims *)

\* s is the text of an IPv4 CIDR
ValidCIDR(s) ==
    /\ IndexByte(s, Slash, 1) > 0
    /\ CidrBase(s) \in Addr
    /\ CidrLen(s) \in 0 .. W

\* the positions of input that hold an IPv4 CIDR
ValidInputs == {i \in DOMAIN input : ValidCIDR(input[i])}

\* input[i] lies in no wider block of input
Maximal(i) ==
    ~\E j \in ValidInputs :
        /\ Covered(input[i]) \subseteq Covered(input[j])
        /\ Covered(input[i]) # Covered(input[j])

\* C7: no entry of filterRedundantCIDRs(X) covers the span of another entry
\* (so no block is there twice).
C7_NonContainment ==
    pcFilter \in {"filtered", "refiltered"} =>
        \A i, j \in DOMAIN filtered :
            i # j => ~(Covered(filtered[j]) \subseteq Covered(filtered[i]))

C7_Witness ==
    /\ pcFilter = "filtered"
    /\ Len(filtered) >= 2

\* C8: filterRedundantCIDRs(X) holds, each once, exactly the blocks of X that
\* lie in no wider block of X.
C8_ExactlyMaximal ==
    pcFilter \in {"filtered", "refiltered"} =>
        /\ {Covered(filtered[k]) : k \in DOMAIN filtered}
              = {Covered(input[i]) : i \in {j \in ValidInputs : Maximal(j)}}
        /\ \A k, l \in DOMAIN filtered :
              k # l => Covered(filtered[k]) # Covered(filtered[l])

C8_Witness ==
    /\ pcFilter = "filtered"
    /\ Len(input) = 2
    /\ ValidInputs = {1, 2}
    /\ Covered(input[1]) # Covered(input[2])
    /\ Len(filtered) = 1

\* C9: filterRedundantCIDRs(filterRedundantCIDRs(X)) is the same list as
\* filterRedundantCIDRs(X).
C9_Idempotent ==
    pcFilter = "refiltered" => refiltered = filtered

C9_Witness ==
    /\ pcFilter = "refiltered"
    /\ Len(filtered) >= 2
    /\ filtered # input

\* C10: the list handed to the formatter is in ascending order of the numeric
\* value of the blocks' base addresses.
C10_NumericOrder ==
    pcFilter = "formatted" =>
        \A i, j \in DOMAIN ipRanges :
            i < j => CidrBase(ipRanges[i]) <= CidrBase(ipRanges[j])

-----------------------------------------------------------------------------
(* The extraction's claims *)

\* the two addresses written on an inetnum line "inetnum: a - b", -1 for one
\* that is no IPv4 address
RecordStart(line) == IF Len(Fields(line)) >= 4 THEN ParseIP(Fields(line)[2]) ELSE -1

RecordEnd(line) == IF Len(Fields(line)) >= 4 THEN ParseIP(Fields(line)[4]) ELSE -1

\* the inetnum line of the block about to be read
InetnumOfBlock == lastLineWith(blockLinesAt(scanned), InetnumKey, <<>>)

\* C2: a CIDR that extractCountryCIDRs or extractCIDRsByKeywordsAndCountry
\* adds for a record whose inetnum is start - end, start <= end, covers no
\* address outside start..end.
C2_OutputWithinRange ==
    [][(/\ extract_Block
        /\ RecordStart(InetnumOfBlock) # -1
        /\ RecordEnd(InetnumOfBlock) # -1
        /\ RecordStart(InetnumOfBlock) <= RecordEnd(InetnumOfBlock))
       => \A k \in Len(found) + 1 .. Len(found') :
             Covered(found'[k])
                 \subseteq RecordStart(InetnumOfBlock) .. RecordEnd(InetnumOfBlock)]_vars

\* C11: the block scanner yields every maximal run of non-empty lines as a
\* record, so no record after a pair of empty lines or a leading empty line is
\* lost: when the scan is over, no non-empty line of the stream is left
\* unread.
C11_NoRecordLost ==
    pcExtract \in {"returned", "nothingFound", "formatted"} /\ ioErr # "open" =>
        \A i \in scanned + 1 .. Len(db) : db[i] = <<>>

\* the record about to be read
NextRecord == blockLinesAt(scanned)

\* the positions of the record's lines that set attribute key ("key:" first)
AttrLines(record, key) ==
    {i \in DOMAIN record : HasPrefix(TrimSpace(record[i]), key)}

HasAttr(record, key) == AttrLines(record, key) # {}

\* the value of the attribute: what follows the key on the last of its lines
AttrValue(record, key) ==
    LET last == CHOOSE i \in AttrLines(record, key) :
                    \A j \in AttrLines(record, key) : j <= i
        line == TrimSpace(record[last])
    IN  TrimSpace(SubSeq(line, Len(key) + 1, Len(line)))

\* the record's inetnum is a range of two IPv4 addresses
HasIPv4Range(record) ==
    /\ HasAttr(record, InetnumKey)
    /\ RecordStart(lastLineWith(record, InetnumKey, <<>>)) # -1
    /\ RecordEnd(lastLineWith(record, InetnumKey, <<>>)) # -1

\* the country check: no filter, or the record's country is the filter,
\* letter case ignored
CountryCheck(record, filter) ==
    \/ filter = <<>>
    \/ /\ HasAttr(record, CountryKey)
       /\ ToUpper(AttrValue(record, CountryKey)) = ToUpper(filter)

\* some keyword (empty entries aside) occurs in the record's text, letter case
\* ignored
SomeKeywordOccurs(record, kws) ==
    \E k \in DOMAIN kws :
        /\ kws[k] # <<>>
        /\ StrContains(ToLower(Join(record, <<10>>)), ToLower(kws[k]))

\* the keyword check: no keyword, or one of them occurs
KeywordCheck(record, kws) == Len(kws) = 0 \/ SomeKeywordOccurs(record, kws)

\* the step reads a record and adds a CIDR for it
Selects == extract_Block /\ Len(found') > Len(found)

\* C12: extractCIDRsByKeywordsAndCountry selects a record with an inetnum if
\* and only if the country check and the keyword check both pass; an empty
\* country filter passes every record (one with no country too) and an empty
\* keyword list passes every record.
C12_SelectedIffBothChecks ==
    [][(extract_Block /\ call = "search" /\ HasIPv4Range(NextRecord))
       => (Selects <=> (/\ CountryCheck(NextRecord, countryCode)
                        /\ KeywordCheck(NextRecord, keywords)))]_vars

\* a record with no country selected by the search with no filter at all
C12_Witness ==
    /\ call = "search"
    /\ countryCode = <<>>
    /\ keywords = <<>>
    /\ pcExtract = "returned"
    /\ Len(found) = 1
    /\ \A i \in DOMAIN db : ~HasPrefix(db[i], CountryKey)

\* C13: with one or more keywords, none of them empty, a record passes the
\* keyword check if and only if its lower-cased text contains at least one of
\* the lower-cased keywords; never must all of them occur.
C13_AnyKeyword ==
    [][(/\ extract_Block
        /\ call = "search"
        /\ Len(keywords) >= 1
        /\ \A k \in DOMAIN keywords : keywords[k] # <<>>
        /\ HasIPv4Range(NextRecord)
        /\ CountryCheck(NextRecord, countryCode))
       => (Selects <=> SomeKeywordOccurs(NextRecord, keywords))]_vars

\* a record selected for one keyword of two ("Ok", found in "descr: OK")
\* while the other ("zz") occurs nowhere
C13_Witness ==
    /\ call = "search"
    /\ Len(keywords) = 2
    /\ pcExtract = "returned"
    /\ Len(found) >= 1
    /\ \E k \in DOMAIN keywords :
          \A i \in DOMAIN db : ~StrContains(ToLower(db[i]), keywords[k])

\* C14: with a country filter, a record passes the country check if and only
\* if it has a country attribute whose value is the filter, letter case
\* ignored; a record with no country never passes.  In extractCountryCIDRs and
\* in extractCIDRsByKeywordsAndCountry.
C14_CountryIgnoringCase ==
    [][(/\ extract_Block
        /\ countryCode # <<>>
        /\ HasIPv4Range(NextRecord)
        /\ KeywordCheck(NextRecord, keywords))
       => (Selects <=> (/\ HasAttr(NextRecord, CountryKey)
                        /\ ToUpper(AttrValue(NextRecord, CountryKey))
                              = ToUpper(countryCode)))]_vars

\* a record whose country is written "Ru" selected for the filter "ru"
C14_Witness ==
    /\ call = "createBindACL"
    /\ pcExtract = "returned"
    /\ Len(found) >= 1
    /\ \E i \in DOMAIN db : db[i] = CountryLine(StrRu)

\* C15: a record with no inetnum attribute adds no CIDR, whatever its country
\* and its text, with or without filters.
C15_NoInetnumNoOutput ==
    [][(extract_Block /\ ~HasAttr(NextRecord, InetnumKey)) => found' = found]_vars

\* a record with no inetnum read by a search whose keyword occurs in it
C15_Witness ==
    /\ call = "search"
    /\ pcExtract = "returned"
    /\ scanned = Len(db)
    /\ Len(db) >= 1
    /\ \A i \in DOMAIN db : ~HasPrefix(db[i], InetnumKey)
    /\ \E i \in DOMAIN db : \E k \in DOMAIN keywords :
          StrContains(ToLower(db[i]), keywords[k])
    /\ found = <<>>

\* C16: when opening the database fails or reading it fails part-way, the
\* query reports the failure and yields no CIDR list: its caller neither
\* formats a list (one built from the records read before the failure) nor
\* reports, as for a scan that matched nothing, that nothing was found.
C16_FailureReported ==
    ioErr # "none" => pcExtract \notin {"nothingFound", "formatted"}

\* the two endpoints as written on an inetnum line "inetnum: a - b", "" for
\* one that is not there
RecordStartText(line) == IF Len(Fields(line)) >= 2 THEN Fields(line)[2] ELSE <<>>

RecordEndText(line) == IF Len(Fields(line)) >= 4 THEN Fields(line)[4] ELSE <<>>

\* s is the text of an IPv4 address: decimal digits, here of one octet
IsIPv4Text(s) ==
    /\ s # <<>>
    /\ \A i \in DOMAIN s : IsDigit(s[i])
    /\ DigitsValue(s, 0) \in Addr

\* C17: when an endpoint of a record's inetnum is no IPv4 address (an IPv6
\* literal included), no CIDR is emitted for that record.
C17_BadEndpointNoOutput ==
    [][(/\ extract_Block
        /\ HasAttr(NextRecord, InetnumKey)
        /\ \/ ~IsIPv4Text(RecordStartText(InetnumOfBlock))
           \/ ~IsIPv4Text(RecordEndText(InetnumOfBlock)))
       => found' = found]_vars

\* C18: when a matching record's inetnum is two IPv4 addresses with
\* start > end, the range is discarded: no CIDR is emitted for the record.
C18_BackwardsRangeNoOutput ==
    [][(/\ extract_Block
        /\ IsIPv4Text(RecordStartText(InetnumOfBlock))
        /\ IsIPv4Text(RecordEndText(InetnumOfBlock))
        /\ RecordStart(InetnumOfBlock) > RecordEnd(InetnumOfBlock))
       => found' = found]_vars

\* C19: the list -search prints holds no entry twice and no two entries whose
\* address spans overlap.
C19_SearchOutputDisjoint ==
    (call = "search" /\ pcExtract = "formatted") =>
        \A i, j \in DOMAIN ipRanges :
            i # j => /\ ipRanges[i] # ipRanges[j]
                     /\ Covered(ipRanges[i]) \cap Covered(ipRanges[j]) = {}

\* two records found, one range nested in the other, one entry printed
C19_Witness ==
    /\ call = "search"
    /\ pcExtract = "formatted"
    /\ Len(found) = 2
    /\ found[1] # found[2]
    /\ Len(ipRanges) = 1

\* the records of a line stream: its maximal runs of non-empty lines, buf the
\* run being read
RECURSIVE RecordsFrom(_, _)
RecordsFrom(lines, buf) ==
    IF lines = <<>> THEN (IF buf = <<>> THEN <<>> ELSE <<buf>>)
    ELSE IF Head(lines) = <<>>
         THEN (IF buf = <<>> THEN <<>> ELSE <<buf>>) \o RecordsFrom(Tail(lines), <<>>)
         ELSE RecordsFrom(Tail(lines), Append(buf, Head(lines)))

Records(lines) == RecordsFrom(lines, <<>>)

\* the range of a record's inetnum is covered by the list handed to the
\* formatter
RangeCovered(record) ==
    \A a \in RecordStart(lastLineWith(record, InetnumKey, <<>>))
              .. RecordEnd(lastLineWith(record, InetnumKey, <<>>)) :
        \E k \in DOMAIN ipRanges : a \in Covered(ipRanges[k])

\* C20: once the database is read to its end, for every record of it that
\* matches the query and whose inetnum is a range of IPv4 addresses with
\* start <= end, every address of the range is covered by a CIDR of the final
\* list; in the unfiltered and in the filtered modes.
C20_AllRangesCovered ==
    (ioErr = "none" /\ pcExtract \in {"nothingFound", "formatted"}) =>
        \A r \in DOMAIN Records(db) :
            LET record == Records(db)[r]
            IN  (/\ HasIPv4Range(record)
                 /\ RecordStart(lastLineWith(record, InetnumKey, <<>>))
                       <= RecordEnd(lastLineWith(record, InetnumKey, <<>>))
                 /\ CountryCheck(record, countryCode)
                 /\ KeywordCheck(record, keywords))
                => RangeCovered(record)

\* C21: for every IPv4 CIDR a/n, n in 0..W, cidrToRoute returns the block's
\* aligned network address and the netmask of n one bits followed by zero
\* bits, and the two denote the address set of the CIDR; for a string that is
\* no CIDR it returns an error.
C21_RouteDenotesBlock ==
    pcFilter = "routed" =>
        \A i \in DOMAIN input :
            IF ValidCIDR(input[i])
            THEN LET size    == BlockSize(CidrLen(input[i]))
                     network == Atoi(routes[i].startIP)
                     netmask == Atoi(routes[i].netmask)
                 IN  /\ routes[i] # NoRoute
                     /\ network = (CidrBase(input[i]) \div size) * size
                     /\ netmask = Pow2(W) - size
                     /\ {a \in Addr : BitAnd(a, netmask) = network} = Covered(input[i])
            ELSE routes[i] = NoRoute

\* the route of a CIDR written with host bits set
C21_Witness ==
    /\ pcFilter = "routed"
    /\ ValidCIDR(input[1])
    /\ CidrLen(input[1]) \in 1 .. W - 1
    /\ routes[1] # NoRoute
    /\ Atoi(routes[1].startIP) # CidrBase(input[1])

\* start..end is exactly the span of one CIDR block: its length is a power of
\* two and start a multiple of it
OneBlockSpan ==
    /\ ValidRange
    /\ \E k \in 0 .. W : /\ End0 - Start0 + 1 = Pow2(k)
                         /\ Start0 % Pow2(k) = 0

\* C22: when start..end is exactly the span of one CIDR block of 2^k
\* addresses, the call returns that one block, of prefix length W - k; for
\* start = 0 and end = MaxUint it returns the single block 0/0.
C22_OneBlockForSpan ==
    (OneBlockSpan /\ Over) =>
        /\ pc = "returned"
        /\ \E k \in 0 .. W : /\ End0 - Start0 + 1 = Pow2(k)
                             /\ cidrs = <<FormatCIDR(Start0, W - k)>>

\* C23: for every address a, MaxUint included, the range a..a is returned as
\* the one block a/W and nothing else.
C23_SingleAddress ==
    (ValidRange /\ Start0 = End0 /\ Over) =>
        /\ pc = "returned"
        /\ cidrs = <<FormatCIDR(Start0, W)>>

\* C24: a CIDR is emitted for a keyword match only from the inetnum of the
\* record whose text holds the keyword, never from the inetnum of the
\* following or any other record: in the name search, no empty line lies
\* between the line that holds the name and the inetnum line converted for it.
C24_SameRecord ==
    [][(process_Line /\ found' # found)
       => \A k \in scanned + 1 .. scanned' : db[k] # <<>>]_vars

\* the last line of the record that sets attribute key, trimmed
LastAttrLine(record, key) ==
    TrimSpace(record[CHOOSE i \in AttrLines(record, key) :
                         \A j \in AttrLines(record, key) : j <= i])

\* C25: when inetnum or country occurs more than once in a record, the last
\* occurrence decides: the record is selected when its last country is the
\* filter, and the CIDR added is the one of its last inetnum.
C25_LastOccurrence ==
    [][(/\ extract_Block
        /\ countryCode # <<>>
        /\ HasAttr(NextRecord, InetnumKey)
        /\ HasAttr(NextRecord, CountryKey))
       => found' = found \o
              (IF ToUpper(AttrValue(NextRecord, CountryKey)) = ToUpper(countryCode)
               THEN <<generateCIDR(RecordStartText(LastAttrLine(NextRecord, InetnumKey)),
                                   RecordEndText(LastAttrLine(NextRecord, InetnumKey)))>>
               ELSE <<>>)]_vars

\* one record with two inetnum lines and two country lines, selected for the
\* later country and converted from the later range
C25_Witness ==
    /\ pcExtract = "returned"
    /\ Len(db) = 4
    /\ \A i \in DOMAIN db : db[i] # <<>>
    /\ Cardinality(AttrLines(db, InetnumKey)) = 2
    /\ Cardinality(AttrLines(db, CountryKey)) = 2
    /\ Cardinality({db[i] : i \in DOMAIN db}) = 4
    /\ Len(found) = 1

\* the line with its key, the text up to the first ':', in lower case
LowerKey(line) ==
    LET i == IndexByte(line, 58, 1)
    IN  IF i = 0 THEN line
        ELSE ToLower(SubSeq(line, 1, i)) \o SubSeq(line, i + 1, Len(line))

LowerKeys(record) == [i \in DOMAIN record |-> LowerKey(record[i])]

\* C26: keys are recognised whatever their letter case: a record adds what
\* the same record with its keys in lower case adds.
C26_KeysIgnoreCase ==
    [][extract_Block
       => found' = found \o
              (IF call = "search"
               THEN searchBlockCIDRs(LowerKeys(NextRecord), countryCode, keywords)
               ELSE countryBlockCIDRs(LowerKeys(NextRecord), countryCode))]_vars

\* C27: a query leaves its arguments alone: no step of a call changes the
\* strings of the caller's keyword list.  (keywords is the slice, whose
\* elements the caller shares; countryCode is the function's own copy of a
\* string, which the caller cannot see change.)
C27_ArgumentsUnchanged ==
    [][keywords' = keywords]_vars

\* the text net.IPNet.String gives for the block s denotes
Canonical(s) ==
    FormatCIDR(CidrBase(s) - (CidrBase(s) % BlockSize(CidrLen(s))), CidrLen(s))

\* C28: for a list X of valid CIDR strings, filterRedundantCIDRs(X) covers
\* the addresses X covers, and each of its entries is the canonical text of
\* an entry of X.
C28_CoverageKept ==
    (pcFilter \in {"filtered", "refiltered"} /\ ValidInputs = DOMAIN input) =>
        /\ UNION {Covered(filtered[k]) : k \in DOMAIN filtered}
              = UNION {Covered(input[i]) : i \in DOMAIN input}
        /\ \A k \in DOMAIN filtered :
              \E i \in DOMAIN input : filtered[k] = Canonical(input[i])

\* a list of two valid blocks, one inside the other and the wider one written
\* with host bits: one entry is dropped and the other one rewritten
C28_Witness ==
    /\ pcFilter = "filtered"
    /\ ValidInputs = DOMAIN input
    /\ Len(input) = 2
    /\ Len(filtered) = 1
    /\ filtered[1] # input[1]
    /\ filtered[1] # input[2]

\* C29: for two IPv4 addresses the single-block generateCIDR returns the
\* smallest block that holds both: an aligned block with both inside, no
\* longer prefix shared by the two; one address gives its /32 and the whole
\* address space gives 0.0.0.0/0.
C29_SmallestCommonBlock ==
    (pcSingle = "returned" /\ Start0 # -1 /\ End0 # -1) =>
        /\ cidr # <<>>
        /\ Aligned(cidr)
        /\ Start0 \in Covered(cidr)
        /\ End0 \in Covered(cidr)
        /\ \A n \in CidrLen(cidr) + 1 .. W :
              Start0 \div BlockSize(n) # End0 \div BlockSize(n)
        /\ Start0 = End0 => cidr = FormatCIDR(Start0, W)
        /\ (Start0 = 0 /\ End0 = MaxUint) => cidr = FormatCIDR(0, 0)

\* the whole address space, whose mask is computed with a shift by the width
C29_Witness ==
    /\ pcSingle = "returned"
    /\ Start0 = 0
    /\ End0 = MaxUint
    /\ cidr = FormatCIDR(0, 0)

\* the keyword lists of a search parameter with empty entries: ":," gives two
\* empty strings, ":,ok" an empty string and a keyword
EmptyCalls ==
    {[call |-> "search", countryCode |-> <<>>, keywords |-> <<<<>>, <<>>>>],
     [call |-> "search", countryCode |-> StrRU, keywords |-> <<<<>>, <<>>>>],
     [call |-> "search", countryCode |-> <<>>, keywords |-> <<<<>>, Strok>>],
     [call |-> "search", countryCode |-> <<>>, keywords |-> <<Strzz, <<>>>>]}

InitEmpty ==
    \E lines \in ListsUpTo(DbLines, MaxLines) : \E c \in EmptyCalls : InitRun(lines, c)

SpecEmpty == InitEmpty /\ [][NextExtract]_vars

\* the list without its empty strings
NonEmpty(kws) == SelectSeq(kws, LAMBDA kw : kw # <<>>)

\* C30: empty strings in the keyword list are ignored: a record adds what it
\* adds under the list without them, and nothing when the list holds empty
\* strings only.
C30_EmptyKeywordsIgnored ==
    [][(extract_Block /\ call = "search" /\ Len(keywords) > 0)
       => found' = found \o
              (IF NonEmpty(keywords) = <<>> THEN <<>>
               ELSE searchBlockCIDRs(NextRecord, countryCode, NonEmpty(keywords)))]_vars

\* a search with empty strings only went over a record with an IPv4 range and
\* found nothing
C30_Witness ==
    /\ pcExtract = "nothingFound"
    /\ ioErr = "none"
    /\ countryCode = <<>>
    /\ Len(keywords) > 0
    /\ NonEmpty(keywords) = <<>>
    /\ \E i \in DOMAIN db : db[i] = InetnumLine(2, 5)

====
